---------------------------- MODULE Spec2Model ----------------------------
(***************************************************************************)
(* Elucidate (src/app.py): a Flask questionnaire that collects six dream   *)
(* answers per visitor session, builds a prompt, and asks an external      *)
(* text-generation service for an interpretation through a shared          *)
(* in-memory cache.                                                        *)
(*                                                                         *)
(* Text is a sequence of tokens.  A token is either one whitespace         *)
(* character (" ", "\n", "\t") or a non-empty run of non-whitespace        *)
(* characters; adjacent non-whitespace tokens belong to the same word,     *)
(* exactly as adjacent non-whitespace characters do in a Python str.       *)
(***************************************************************************)
EXTENDS Integers, Sequences, FiniteSets, TLC

VARIABLES
    session,       \* visitor -> the visitor's session dict
    cache,         \* the stored entries of the interpretation cache
    now,           \* the clock, in seconds
    dream_diary,   \* the global diary list
    inflight,      \* visitor -> the visitor's request blocked in the external call
    request,       \* the request the server accepted last
    response,      \* the response the server sent last
    calls,         \* external service invocations issued so far
    requests,      \* requests accepted so far
    posts,         \* visitor -> Question submits since the visitor's last Start
    bp_responses,  \* argument of a direct build_prompt call
    bp_prompt      \* its result

vars == <<session, cache, now, dream_diary, inflight, request, response,
          calls, requests, posts, bp_responses, bp_prompt>>

---------------------------------------------------------------------------
(* Bounds of the model *)

\* visitors (browser sessions) talking to the server
Visitors == {"v1", "v2"}

\* the one visitor followed through the whole questionnaire
WizardVisitors == {"v1"}

\* requests handled in one behaviour of the server
MaxRequests == 2

\* external service invocations issued in one behaviour
MaxCalls == 2

\* clock ticks in one behaviour; one tick is half the cache timeout
MaxTicks == 2

\* number of words of the longest text the external service returns
LongWords == 251

---------------------------------------------------------------------------
(* Python str helpers *)

\* characters str.strip() and str.split() treat as whitespace
Whitespace == {" ", "\n", "\t"}

MinOf(S) == CHOOSE x \in S : \A y \in S : x <= y

MaxOf(S) == CHOOSE x \in S : \A y \in S : y <= x

\* str.strip(): drop leading and trailing whitespace
Strip(s) ==
    LET solid == {i \in 1..Len(s) : s[i] \notin Whitespace}
    IN  IF solid = {} THEN <<>> ELSE SubSeq(s, MinOf(solid), MaxOf(solid))

\* the members of the set of integers S that lie in lo..hi, ascending
RECURSIVE Ascending(_, _, _)
Ascending(S, lo, hi) ==
    IF lo > hi THEN <<>>
    ELSE IF lo = hi THEN (IF lo \in S THEN <<lo>> ELSE <<>>)
    ELSE LET mid == (lo + hi) \div 2
         IN  Ascending(S, lo, mid) \o Ascending(S, mid + 1, hi)

\* str.split() with no separator: the maximal runs of non-whitespace, in
\* order
Split(s) ==
    LET first == {i \in 1..Len(s) :
                    s[i] \notin Whitespace /\ (i = 1 \/ s[i - 1] \in Whitespace)}
        final == {i \in 1..Len(s) :
                    s[i] \notin Whitespace /\ (i = Len(s) \/ s[i + 1] \in Whitespace)}
        from == Ascending(first, 1, Len(s))
        to == Ascending(final, 1, Len(s))
    IN  [k \in 1..Len(from) |-> SubSeq(s, from[k], to[k])]

\* " ".join(words[lo-1:hi])
RECURSIVE JoinRange(_, _, _)
JoinRange(words, lo, hi) ==
    IF lo > hi THEN <<>>
    ELSE IF lo = hi THEN words[lo]
    ELSE LET mid == (lo + hi) \div 2
         IN  JoinRange(words, lo, mid) \o <<" ">> \o JoinRange(words, mid + 1, hi)

\* " ".join(words)
Join(words) == JoinRange(words, 1, Len(words))

\* words[:n]
Take(words, n) == SubSeq(words, 1, IF Len(words) < n THEN Len(words) ELSE n)

---------------------------------------------------------------------------
(* Program constants *)

QUESTIONS == <<
    "Hello! What did you dream about last night? Describe the setting as best you can.",
    "Tell me more about one specific detail, figure, or symbol that stood out to you.",
    "What emotions did you feel throughout the dream?",
    "Did anything in your dream feel particularly meaningful or symbolic?",
    "What thoughts or emotions did you have upon waking up?",
    "If you could step back into the dream right now, what would you do or explore further?" >>

LABELS == <<
    "Dream Narrative & Atmosphere",
    "Core Focus and Symbolic Anchor",
    "Emotional Undercurrents",
    "Latent Messages, Personal Symbols",
    "Lingering Impact & Subconscious Echo",
    "Unfinished Exploration & Desire" >>

\* len(QUESTIONS)
N == Len(QUESTIONS)

\* Python list indexes of the questions, 0-based
Idx == 0..(N - 1)

\* CACHE_DEFAULT_TIMEOUT, in seconds
CACHE_DEFAULT_TIMEOUT == 300

\* the word limit enforced on an interpretation
WORD_LIMIT == 250

\* the text appended to a truncated interpretation
ELLIPSIS == "..."

\* the instruction text every prompt starts with (one token followed by the
\* two line breaks that end it)
PREAMBLE == <<
    "You are a professional dream interpreter. You are trained in both the classics and modern schools of thought. You take into account spirituality as well as psychology. Try to combine meanings between dream elements and interpretations. Do not be afraid to make connections between those elements, treat them as interconnected. Connect with the user, and speak to them directly. Based on the following responses, provide a thoughtful and insightful interpretation of the dream. Avoid literal and obvious interpretations. Avoid a summary paragraph, but instead end with a self-reflective question or insight that encourages deeper personal exploration.",
    "\n", "\n" >>

\* the fixed text returned when the external call fails
FALLBACK == <<
    "Sorry,", " ", "we", " ", "encountered", " ", "an", " ", "error", " ",
    "while", " ", "generating", " ", "your", " ", "interpretation.", " ",
    "Please", " ", "try", " ", "again", " ", "later." >>

---------------------------------------------------------------------------
(* Pure functions of the program *)

\* [""] * len(QUESTIONS), as a 1-based sequence: element k is answer k-1
BlankResponses == [k \in 1..N |-> <<>>]

\* f"{label}: {response}\n", answer being the response
PromptLine(label, answer) == <<label, ": ">> \o answer \o <<"\n">>

\* faulty variant: an answer is left out only when it is the empty string
RECURSIVE BuildFromUnstripped(_, _, _)
BuildFromUnstripped(responses, k, prompt) ==
    IF k > Len(LABELS) \/ k > Len(responses) THEN prompt
    ELSE BuildFromUnstripped(responses, k + 1,
                   IF responses[k] # <<>>
                   THEN prompt \o PromptLine(LABELS[k], responses[k])
                   ELSE prompt)

build_prompt_unstripped(responses) == BuildFromUnstripped(responses, 1, PREAMBLE)

\* build_prompt: the preamble, then one entry per pair of zip(LABELS,
\* responses) whose response is not blank after strip()
RECURSIVE BuildFrom(_, _, _)
BuildFrom(responses, k, prompt) ==
    IF k > Len(LABELS) \/ k > Len(responses) THEN prompt
    ELSE BuildFrom(responses, k + 1,
                   IF Strip(responses[k]) # <<>>
                   THEN prompt \o PromptLine(LABELS[k], responses[k])
                   ELSE prompt)

build_prompt(responses) == BuildFrom(responses, 1, PREAMBLE)

\* hashlib.sha256(prompt.encode('utf-8')).hexdigest(): a digest that is a
\* function of the prompt text alone and, being collision resistant, differs
\* for different prompts
prompt_hash(prompt) == <<"sha256">> \o prompt

\* faulty variant: the word limit is not enforced
InterpretUncut(content) == Strip(content)

\* lines 92-96: strip the raw completion and enforce the word limit
Interpret(content) ==
    LET interpretation == Strip(content)
        words == Split(interpretation)
    IN  IF Len(words) > WORD_LIMIT
        THEN Join(Take(words, WORD_LIMIT)) \o <<ELLIPSIS>>
        ELSE interpretation

---------------------------------------------------------------------------
(* Dictionaries: the session and request.form *)

\* A Python dict with a known set of possible keys is a record holding the
\* set of keys present ("keys") and one field per possible key; the field
\* of a key that is not present holds a placeholder that is never read.

\* dict.get(key, default)
Get(dict, key, default) == IF key \in dict.keys THEN dict[key] ELSE default

\* key in dict
Has(dict, key) == key \in dict.keys

\* a session holding nothing: the visitor's cookie before any handler wrote
EmptySession == [keys |-> {}, responses |-> BlankResponses, current_question |-> 0]

\* responses[i] = answer on a Python list held as a 1-based sequence
ListSet(list, i, answer) == [list EXCEPT ![i + 1] = answer]

---------------------------------------------------------------------------
(* Inputs *)

\* text a visitor may type into an answer field
AnswerInputs == { <<" ">>, <<"\t", "dark", " ", "forest", " ">> }

\* f"question_{i}"
FieldName(i) == "question_" \o ToString(i)

\* a request.form: the names of the fields present, the text of "answer"
\* and the texts of the question_<i> fields (index i at position i + 1);
\* the text of a field that is not present is never read
Form(keys, answer, fields) ==
    [keys |-> keys, answer |-> answer, skip |-> "1", question |-> fields]

NoForm == Form({}, <<>>, BlankResponses)

\* request.form of POST /question: any of the fields "answer" and "skip"
QuestionForms ==
    {Form({}, <<>>, BlankResponses), Form({"skip"}, <<>>, BlankResponses)}
    \cup {Form({"answer"}, a, BlankResponses) : a \in AnswerInputs}
    \cup {Form({"answer", "skip"}, a, BlankResponses) : a \in AnswerInputs}

\* the sets of question_<i> fields a POST /review may carry
ReviewFieldSets == {{}, Idx, {0}, {1, N - 1}}

\* request.form of POST /review
ReviewForms ==
    {Form({FieldName(i) : i \in S}, <<>>,
          [k \in 1..N |-> IF k - 1 \in S THEN a ELSE <<>>]) :
        S \in ReviewFieldSets, a \in AnswerInputs}

\* request.form.get(f"question_{i}", "")
FieldGet(form, i) ==
    IF FieldName(i) \in form.keys THEN form.question[i + 1] ELSE <<>>

\* a text of n words "1", "2", ..., every word followed by "\n" and " "
WordsText(n) ==
    [k \in 1..(3 * n) |->
        IF k % 3 = 1 THEN ToString((k + 2) \div 3)
        ELSE IF k % 3 = 2 THEN "\n" ELSE " "]

\* a text of n words "1", "2", ..., a line break before the first and a
\* space after every word
LinesText(n) ==
    [k \in 1..(2 * n + 1) |->
        IF k = 1 THEN "\n" ELSE IF k % 2 = 0 THEN ToString(k \div 2) ELSE " "]

\* response.choices[0].message.content of a successful external call: the
\* service is sampled at temperature 1.2, so any of these may come back for
\* any prompt
Completions == { <<"\n">>, LinesText(WORD_LIMIT), WordsText(LongWords) }

\* Interpret over the completions, computed once
Interpreted == [content \in Completions |-> Interpret(content)]

---------------------------------------------------------------------------
(* The interpretation cache *)

\* The cache is the set of stored entries, at most one per key.

\* cache.get(key) of SimpleCache: the value when the key is stored and its
\* expiry time is still ahead, else None (found = FALSE)
CacheGet(key) ==
    IF \E e \in cache : e.key = key /\ e.expires > now
    THEN [found |-> TRUE,
          value |-> (CHOOSE e \in cache : e.key = key /\ e.expires > now).value]
    ELSE [found |-> FALSE, value |-> <<>>]

\* cache.set(key, value): store with expiry CACHE_DEFAULT_TIMEOUT from now,
\* replacing what the key held
CacheSet(key, value) ==
    {e \in cache : e.key # key}
    \cup {[key |-> key, value |-> value, expires |-> now + CACHE_DEFAULT_TIMEOUT]}

\* Python truthiness of cache.get's result: None and "" are both false
Truthy(got) == got.found /\ got.value # <<>>

---------------------------------------------------------------------------
(* State *)

\* no request of the visitor is blocked in the external call
Idle == [busy |-> FALSE, prompt |-> <<>>, began |-> 0]

\* a request: who sends it, to which route, with which method and form
Request(v, route, method, form) ==
    [visitor |-> v, route |-> route, method |-> method, form |-> form]

NoRequest == Request("", "", "", NoForm)

\* a redirect(url_for(endpoint))
Redirect(endpoint) ==
    [kind |-> "redirect", target |-> endpoint, shown |-> <<>>,
     prompt |-> <<>>, interpretation |-> <<>>]

\* a render_template(template, ...): shown holds the list handed to the
\* template (the question, the responses, the diary entries), prompt and
\* interpretation the texts handed to it
Page(template, shown, prompt, interpretation) ==
    [kind |-> "page", target |-> template, shown |-> shown,
     prompt |-> prompt, interpretation |-> interpretation]

\* no response yet: a result request is blocked in the external call for
\* the prompt
Calling(prompt) ==
    [kind |-> "calling", target |-> "", shown |-> <<>>,
     prompt |-> prompt, interpretation |-> <<>>]

NoResponse == [kind |-> "", target |-> "", shown |-> <<>>,
               prompt |-> <<>>, interpretation |-> <<>>]

Init ==
    /\ session = [v \in Visitors |-> EmptySession]
    /\ cache = {}
    /\ now = 0
    /\ dream_diary = <<>>
    /\ inflight = [v \in Visitors |-> Idle]
    /\ request = NoRequest
    /\ response = NoResponse
    /\ calls = 0
    /\ requests = 0
    /\ posts = [v \in Visitors |-> 0]
    /\ bp_responses = <<>>
    /\ bp_prompt = <<>>

\* session.get("current_question", 0)
CurrentQuestion(v) == Get(session[v], "current_question", 0)

\* session.get("responses", [""] * len(QUESTIONS))
Responses(v) == Get(session[v], "responses", BlankResponses)

\* what the handlers of the session routes never touch
SessionRoute == UNCHANGED <<cache, now, dream_diary, inflight, calls,
                            bp_responses, bp_prompt>>

---------------------------------------------------------------------------
(* Route handlers *)

\* GET /
home(v) ==
    /\ request' = Request(v, "/", "GET", NoForm)
    /\ response' = Page("index.html", <<>>, <<>>, <<>>)
    /\ UNCHANGED <<session, posts>>
    /\ SessionRoute

\* faulty variant: the index is reset, the answers are kept
StartSessionKeepsAnswers(sess) ==
    [keys |-> sess.keys \cup {"responses", "current_question"},
     responses |-> sess.responses,
     current_question |-> 0]

\* the session after start()
StartSession(sess) ==
    [keys |-> sess.keys \cup {"responses", "current_question"},
     responses |-> [k \in 1..Len(QUESTIONS) |-> <<>>],
     current_question |-> 0]

\* faulty variant: the answers and the index are kept in one place for all
\* visitors, so a Start resets everybody's
start_global(v) ==
    /\ request' = Request(v, "/start", "GET", NoForm)
    /\ session' = [w \in Visitors |-> StartSession(session[w])]
    /\ posts' = [w \in Visitors |-> 0]
    /\ response' = Redirect("main.question")
    /\ SessionRoute

\* GET or POST /start
start(v) ==
    /\ request' = Request(v, "/start", "GET", NoForm)
    /\ session' = [session EXCEPT ![v] = StartSession(@)]
    /\ posts' = [posts EXCEPT ![v] = 0]
    /\ response' = Redirect("main.question")
    /\ SessionRoute

\* faulty variant: "skip" blanks the answer only when no answer text is submitted
SubmittedAnswerSkipLoses(form) ==
    IF Has(form, "skip") /\ Strip(Get(form, "answer", <<>>)) = <<>>
    THEN <<>> ELSE Strip(Get(form, "answer", <<>>))

\* faulty variant: the "answer" field is read without a default, and the
\* text of the missing value is stored
SubmittedAnswerNoDefault(form) ==
    IF Has(form, "skip") THEN <<>> ELSE Strip(Get(form, "answer", <<"None">>))

\* the answer POST /question stores: the stripped "answer" field, or "" when
\* the form carries "skip"
SubmittedAnswer(form) ==
    IF Has(form, "skip") THEN <<>> ELSE Strip(Get(form, "answer", <<>>))

\* faulty variant: the review is reached one question early
MoreQuestionsEarly(current_question) == current_question + 2 < Len(QUESTIONS)

\* whether POST /question at index current_question moves to a next question
MoreQuestions(current_question) == current_question + 1 < Len(QUESTIONS)

\* faulty variant: the answer is stored in a fresh list of blanks instead of
\* the session's list
QuestionSessionFreshList(sess, form) ==
    LET current_question == Get(sess, "current_question", 0)
        responses == ListSet(BlankResponses, current_question, SubmittedAnswer(form))
    IN  IF MoreQuestions(current_question)
        THEN [keys |-> sess.keys \cup {"responses", "current_question"},
              responses |-> responses,
              current_question |-> current_question + 1]
        ELSE [keys |-> sess.keys \cup {"responses"},
              responses |-> responses,
              current_question |-> sess.current_question]

\* faulty variant: after the last question the index starts over
QuestionSessionWraps(sess, form) ==
    LET current_question == Get(sess, "current_question", 0)
        responses == ListSet(Get(sess, "responses", BlankResponses),
                             current_question, SubmittedAnswer(form))
    IN  [keys |-> sess.keys \cup {"responses", "current_question"},
         responses |-> responses,
         current_question |-> (current_question + 1) % Len(QUESTIONS)]

\* faulty variant: the index advances after the last question too
QuestionSessionUnbounded(sess, form) ==
    [keys |-> sess.keys \cup {"responses", "current_question"},
     responses |-> ListSet(Get(sess, "responses", BlankResponses),
                           Get(sess, "current_question", 0), SubmittedAnswer(form)),
     current_question |-> Get(sess, "current_question", 0) + 1]

\* the session after POST /question
QuestionSession(sess, form) ==
    LET current_question == Get(sess, "current_question", 0)
        responses == ListSet(Get(sess, "responses", BlankResponses),
                             current_question, SubmittedAnswer(form))
    IN  IF MoreQuestions(current_question)
        THEN [keys |-> sess.keys \cup {"responses", "current_question"},
              responses |-> responses,
              current_question |-> current_question + 1]
        ELSE [keys |-> sess.keys \cup {"responses"},
              responses |-> responses,
              current_question |-> sess.current_question]

\* GET or POST /question
question(v, method, form) ==
    LET current_question == CurrentQuestion(v)
    IN  /\ request' = Request(v, "/question", method, form)
        /\ IF method = "POST"
           THEN /\ session' = [session EXCEPT ![v] = QuestionSession(@, form)]
                /\ posts' = [posts EXCEPT ![v] = IF @ < N THEN @ + 1 ELSE @]
                /\ response' = IF MoreQuestions(current_question)
                               THEN Redirect("main.question")
                               ELSE Redirect("main.review")
           ELSE /\ response' = Page("question.html",
                                    <<QUESTIONS[current_question + 1]>>,
                                    <<>>, <<>>)
                /\ UNCHANGED <<session, posts>>
        /\ SessionRoute

\* faulty variant: the submitted fields are stored as typed
ReviewedResponsesUnstripped(form) ==
    [k \in 1..Len(QUESTIONS) |-> FieldGet(form, k - 1)]

\* the responses POST /review stores: every answer replaced by the stripped
\* field question_<i>, "" for a field the form lacks
ReviewedResponses(form) ==
    [k \in 1..Len(QUESTIONS) |-> Strip(FieldGet(form, k - 1))]

\* faulty variant: the form is stored whatever the method
ReviewSessionAnyMethod(sess, method, form) ==
    [sess EXCEPT !.keys = @ \cup {"responses"},
                 !.responses = ReviewedResponses(form)]

\* the session after GET or POST /review
ReviewSession(sess, method, form) ==
    IF method = "POST"
    THEN [sess EXCEPT !.keys = @ \cup {"responses"},
                      !.responses = ReviewedResponses(form)]
    ELSE sess

\* GET or POST /review
review(v, method, form) ==
    LET responses == Responses(v)
        prompt == build_prompt(responses)
    IN  /\ request' = Request(v, "/review", method, form)
        /\ session' = [session EXCEPT ![v] = ReviewSession(@, method, form)]
        /\ response' = IF method = "POST"
                       THEN Redirect("main.loading")
                       ELSE Page("review.html", responses, prompt, <<>>)
        /\ UNCHANGED posts
        /\ SessionRoute

\* GET /loading
loading(v) ==
    /\ request' = Request(v, "/loading", "GET", NoForm)
    /\ response' = Page("loading.html", <<>>, <<>>, <<>>)
    /\ UNCHANGED <<session, posts>>
    /\ SessionRoute

\* GET /diary
diary(v) ==
    /\ request' = Request(v, "/diary", "GET", NoForm)
    /\ response' = Page("diary.html", dream_diary, <<>>, <<>>)
    /\ UNCHANGED <<session, posts>>
    /\ SessionRoute

\* the prompt GET /result builds from the visitor's session
ResultPrompt(v) == build_prompt(Responses(v))

\* the session after GET /result
ResultSession(sess) == sess

\* what generate_interpretation does with the cache.get result: return it
\* (TRUE) or go on to the external call (FALSE)
UseCached(cached_interpretation) == Truthy(cached_interpretation)

\* GET /result, generate_interpretation returning the cached text: the
\* handler renders it
result_hit(v) ==
    LET prompt == ResultPrompt(v)
        cached_interpretation == CacheGet(prompt_hash(prompt))
    IN  /\ ~inflight[v].busy
        /\ UseCached(cached_interpretation)
        /\ request' = Request(v, "/result", "GET", NoForm)
        /\ session' = [session EXCEPT ![v] = ResultSession(@)]
        /\ response' = Page("result.html", <<>>, prompt,
                            cached_interpretation.value)
        /\ UNCHANGED <<cache, now, dream_diary, inflight, calls, posts,
                       bp_responses, bp_prompt>>

\* GET /result, generate_interpretation going on to the external call: the
\* request sleeps, invokes the service and stays blocked until it answers
result_miss(v) ==
    LET prompt == ResultPrompt(v)
        cached_interpretation == CacheGet(prompt_hash(prompt))
    IN  /\ ~inflight[v].busy
        /\ ~UseCached(cached_interpretation)
        /\ calls < MaxCalls
        /\ calls' = calls + 1
        /\ request' = Request(v, "/result", "GET", NoForm)
        /\ inflight' = [inflight EXCEPT ![v] =
               [busy |-> TRUE, prompt |-> prompt, began |-> now]]
        /\ session' = [session EXCEPT ![v] = ResultSession(@)]
        /\ response' = Calling(prompt)
        /\ UNCHANGED <<cache, now, dream_diary, posts, bp_responses, bp_prompt>>

\* faulty variant: a key that already holds a usable entry is not set again
SuccessCacheKeepFirst(prompt, interpretation) ==
    IF \E e \in cache : e.key = prompt_hash(prompt) /\ e.expires > now /\ e.value # <<>>
    THEN cache
    ELSE CacheSet(prompt_hash(prompt), interpretation)

\* the cache after the external call for prompt returned and the handler
\* has its interpretation
SuccessCache(prompt, interpretation) ==
    CacheSet(prompt_hash(prompt), interpretation)

\* faulty variant: the key is computed after the call, from the answers the
\* session holds by then
result_return_rekeyed(v, content) ==
    LET prompt == ResultPrompt(v)
        interpretation == Interpreted[content]
    IN  /\ inflight[v].busy
        /\ cache' = SuccessCache(prompt, interpretation)
        /\ inflight' = [inflight EXCEPT ![v] = Idle]
        /\ response' = Page("result.html", <<>>, prompt, interpretation)
        /\ UNCHANGED <<session, now, dream_diary, request, calls, requests,
                       posts, bp_responses, bp_prompt>>

\* faulty variant: the interpretation rendered is also appended to the diary
result_return_recorded(v, content) ==
    LET prompt == inflight[v].prompt
        interpretation == Interpreted[content]
    IN  /\ inflight[v].busy
        /\ cache' = SuccessCache(prompt, interpretation)
        /\ inflight' = [inflight EXCEPT ![v] = Idle]
        /\ response' = Page("result.html", <<>>, prompt, interpretation)
        /\ dream_diary' = Append(dream_diary, interpretation)
        /\ UNCHANGED <<session, now, request, calls, requests,
                       posts, bp_responses, bp_prompt>>

\* the external call of the visitor's blocked request returns content: the
\* interpretation is cut to the word limit, cached and rendered
result_return(v, content) ==
    LET prompt == inflight[v].prompt
        interpretation == Interpreted[content]
    IN  /\ inflight[v].busy
        /\ cache' = SuccessCache(prompt, interpretation)
        /\ inflight' = [inflight EXCEPT ![v] = Idle]
        /\ response' = Page("result.html", <<>>, prompt, interpretation)
        /\ UNCHANGED <<session, now, dream_diary, request, calls, requests,
                       posts, bp_responses, bp_prompt>>

\* faulty variant: the fallback is stored like an interpretation
FailureCacheStored(prompt) == CacheSet(prompt_hash(prompt), FALLBACK)

\* the cache after the external call for prompt failed
FailureCache(prompt) == cache

\* faulty variant: the exception leaves the handler and the request ends in
\* the server's error page
result_raise_abort(v) ==
    /\ inflight[v].busy
    /\ inflight' = [inflight EXCEPT ![v] = Idle]
    /\ response' = Page("500", <<>>, inflight[v].prompt, <<>>)
    /\ UNCHANGED <<session, cache, now, dream_diary, request, calls, requests,
                   posts, bp_responses, bp_prompt>>

\* faulty variant: a failed invocation is tried again by the same request
result_raise_retry(v) ==
    /\ inflight[v].busy
    /\ calls < MaxCalls
    /\ calls' = calls + 1
    /\ response' = Calling(inflight[v].prompt)
    /\ UNCHANGED <<session, cache, now, dream_diary, inflight, request,
                   requests, posts, bp_responses, bp_prompt>>

\* the external call of the visitor's blocked request raises, or answers
\* with a response the handler cannot read: the fallback text is rendered
result_raise(v) ==
    LET prompt == inflight[v].prompt
    IN  /\ inflight[v].busy
        /\ cache' = FailureCache(prompt)
        /\ inflight' = [inflight EXCEPT ![v] = Idle]
        /\ response' = Page("result.html", <<>>, prompt, FALLBACK)
        /\ UNCHANGED <<session, now, dream_diary, request, calls, requests,
                       posts, bp_responses, bp_prompt>>

\* time passes: half the cache timeout
Tick ==
    /\ now < MaxTicks * (CACHE_DEFAULT_TIMEOUT \div 2)
    /\ now' = now + CACHE_DEFAULT_TIMEOUT \div 2
    /\ UNCHANGED <<session, cache, dream_diary, inflight, request, response,
                   calls, requests, posts, bp_responses, bp_prompt>>

---------------------------------------------------------------------------
(* The server: every route, two visitors, a bounded number of requests *)

\* the server accepts one more request
Accept == requests < MaxRequests /\ requests' = requests + 1

Next ==
    \/ \E v \in Visitors : Accept /\ home(v)
    \/ \E v \in Visitors : Accept /\ start(v)
    \/ \E v \in Visitors, form \in QuestionForms : Accept /\ question(v, "POST", form)
    \/ \E v \in Visitors : Accept /\ question(v, "GET", NoForm)
    \/ \E v \in Visitors, form \in ReviewForms : Accept /\ review(v, "POST", form)
    \/ \E v \in Visitors : Accept /\ review(v, "GET", NoForm)
    \/ \E v \in Visitors : Accept /\ loading(v)
    \/ \E v \in Visitors : Accept /\ diary(v)
    \/ \E v \in Visitors : Accept /\ result_hit(v)
    \/ \E v \in Visitors : Accept /\ result_miss(v)
    \/ \E v \in Visitors, content \in Completions : result_return(v, content)
    \/ \E v \in Visitors : result_raise(v)
    \/ Tick

Spec == Init /\ [][Next]_vars

---------------------------------------------------------------------------
(* The questionnaire: one visitor, any number of requests to the session   *)
(* routes                                                                  *)

\* a request outside the server's request budget
Free == UNCHANGED requests

NextWizard ==
    \/ \E v \in WizardVisitors : Free /\ home(v)
    \/ \E v \in WizardVisitors : Free /\ start(v)
    \/ \E v \in WizardVisitors, form \in QuestionForms : Free /\ question(v, "POST", form)
    \/ \E v \in WizardVisitors : Free /\ question(v, "GET", NoForm)
    \/ \E v \in WizardVisitors, form \in ReviewForms : Free /\ review(v, "POST", form)
    \/ \E v \in WizardVisitors : Free /\ review(v, "GET", NoForm)
    \/ \E v \in WizardVisitors : Free /\ loading(v)
    \/ \E v \in WizardVisitors : Free /\ diary(v)

SpecWizard == Init /\ [][NextWizard]_vars

---------------------------------------------------------------------------
(* The prompt builder called directly on any answer sequence               *)

\* answers handed to build_prompt: blank, whitespace only, plain, spanning
\* two lines
PromptAnswers == { <<>>, <<" ", "\t">>, <<"fear">>, <<"a", "\n", "b">> }

InitBuildPrompt ==
    /\ session = [v \in Visitors |-> EmptySession]
    /\ cache = {}
    /\ now = 0
    /\ dream_diary = <<>>
    /\ inflight = [v \in Visitors |-> Idle]
    /\ request = NoRequest
    /\ response = NoResponse
    /\ calls = 0
    /\ requests = 0
    /\ posts = [v \in Visitors |-> 0]
    /\ bp_responses \in [1..N -> PromptAnswers]
    /\ bp_prompt = <<>>

\* prompt = build_prompt(responses)
CallBuildPrompt ==
    /\ bp_prompt = <<>>
    /\ bp_prompt' = build_prompt(bp_responses)
    /\ UNCHANGED <<session, cache, now, dream_diary, inflight, request,
                   response, calls, requests, posts, bp_responses>>

SpecBuildPrompt == InitBuildPrompt /\ [][CallBuildPrompt]_vars

---------------------------------------------------------------------------
(* The server started anew while a visitor is at the last question: Flask  *)
(* keeps the session in the visitor's signed cookie, so the answers and    *)
(* the index outlive the server process, its cache and its counters        *)

\* an answer as POST /question stores it
StoredAnswer == <<"dark", " ", "forest">>

\* the sessions of a visitor who has reached the last question: five answers
\* given and the last one open, or all six given
LastQuestionSessions ==
    {[keys |-> {"responses", "current_question"},
      responses |-> r,
      current_question |-> Len(QUESTIONS) - 1] :
        r \in {[k \in 1..N |-> IF k < N THEN StoredAnswer ELSE <<>>],
               [k \in 1..N |-> StoredAnswer]}}

InitLast ==
    /\ session \in [Visitors -> LastQuestionSessions \cup {EmptySession}]
    /\ session["v1"] \in LastQuestionSessions
    /\ session["v2"] = EmptySession
    /\ cache = {}
    /\ now = 0
    /\ dream_diary = <<>>
    /\ inflight = [v \in Visitors |-> Idle]
    /\ request = NoRequest
    /\ response = NoResponse
    /\ calls = 0
    /\ requests = 0
    /\ posts = [v \in Visitors |->
                  IF session[v].keys = {} THEN 0
                  ELSE IF session[v].responses[N] = <<>> THEN N - 1 ELSE N]
    /\ bp_responses = <<>>
    /\ bp_prompt = <<>>

SpecLast == InitLast /\ [][Next]_vars

---------------------------------------------------------------------------
(* Vocabulary of the properties *)

\* the number of whitespace-separated words of a text
WordCount(s) ==
    Cardinality({i \in 1..Len(s) :
        s[i] \notin Whitespace /\ (i = 1 \/ s[i - 1] \in Whitespace)})

\* t is a with its leading and trailing whitespace removed
IsTrimOf(t, a) ==
    /\ t = <<>> \/ (t[1] \notin Whitespace /\ t[Len(t)] \notin Whitespace)
    /\ \E i \in 0..Len(a) :
          /\ i + Len(t) <= Len(a)
          /\ SubSeq(a, i + 1, i + Len(t)) = t
          /\ \A j \in (1..i) \cup ((i + Len(t) + 1)..Len(a)) : a[j] \in Whitespace

\* the response renders result.html
ResultPage(r) == r.kind = "page" /\ r.target = "result.html"

\* the live, non-empty cache entries stored for a prompt
LiveEntries(prompt) ==
    {e \in cache : e.key = prompt_hash(prompt) /\ e.expires > now /\ e.value # <<>>}

\* the text field `name` of a form, "" when the form lacks it
FormText(form, name) == IF name \in form.keys THEN form[name] ELSE <<>>

---------------------------------------------------------------------------
(* C1 *)

\* C1: if a Result request has just been answered with a non-fallback text t
\* for prompt p, the next Result request whose prompt is p (from any
\* visitor) is answered from the cache with exactly t and issues no external
\* invocation, whatever t is.
C1_RepeatIsCacheHit ==
    [][\A v \in Visitors :
          ( /\ ResultPage(response)
            /\ response.interpretation # FALLBACK
            /\ ResultPrompt(v) = response.prompt
            /\ (result_hit(v) \/ result_miss(v)) )
          => ( /\ ResultPage(response')
               /\ response'.interpretation = response.interpretation
               /\ calls' = calls )]_vars

---------------------------------------------------------------------------
(* C2 *)

\* the failure step of visitor v: the fallback is rendered and the cache is
\* left as it was
FailureAnswered(v) ==
    result_raise(v) =>
        /\ ResultPage(response')
        /\ response'.interpretation = FALLBACK
        /\ cache' = cache

\* the fallback text is not a cached value
FallbackNotCached == \A e \in cache : e.value # FALLBACK

\* every cached value is the interpretation made of a successful completion
OnlyInterpretationsCached ==
    \A e \in cache : \E c \in Completions : e.value = Interpreted[c]

\* C2 as stated: a failed external call renders exactly the fallback and
\* leaves the cache unchanged, the fallback is never a cached value, and
\* after the failure the cache holds nothing usable for the prompt, so that
\* a later request with the same prompt invokes the external service again.
C2_FailureThenReinvoke ==
    /\ []FallbackNotCached
    /\ [][\A v \in Visitors :
            /\ FailureAnswered(v)
            /\ result_raise(v) => LiveEntries(inflight[v].prompt) = {}]_vars

\* C2 amended: a failed external call renders exactly the fallback and
\* leaves the cache unchanged; only interpretations of successful calls are
\* ever cached, never the fallback; and after the failure the cache holds
\* nothing usable for the prompt, so that a later request with the same
\* prompt invokes the external service again, unless a successful call of
\* another request stored an interpretation for the prompt while the failed
\* call was in flight (stored no earlier than the failed request began).
C2_FailureNotCached ==
    /\ [](FallbackNotCached /\ OnlyInterpretationsCached)
    /\ [][\A v \in Visitors :
            /\ FailureAnswered(v)
            /\ result_raise(v) =>
                  \A e \in LiveEntries(inflight[v].prompt) :
                      e.expires - CACHE_DEFAULT_TIMEOUT >= inflight[v].began]_vars

\* a failure was answered with the fallback while the cache holds an entry
\* another request stored for the same prompt
C2_Witness ==
    /\ ResultPage(response)
    /\ response.interpretation = FALLBACK
    /\ LiveEntries(response.prompt) # {}

---------------------------------------------------------------------------
(* C3 *)

\* text has at most WORD_LIMIT words; a text of at most 2 * WORD_LIMIT
\* tokens cannot have more, its words being separated by whitespace
InLimit(text) ==
    \/ Len(text) <= 2 * WORD_LIMIT
    \/ WordCount(text) <= WORD_LIMIT

\* every rendered interpretation and every cached value is within the limit
WithinWordLimit ==
    /\ InLimit(response.interpretation)
    /\ \A e \in cache : InLimit(e.value)

\* text is the first WORD_LIMIT words of content, separated by single
\* spaces, with the ellipsis attached to the last of them
IsCutOf(text, content) ==
    /\ Len(text) > 0
    /\ text[Len(text)] = ELLIPSIS
    /\ Split(SubSeq(text, 1, Len(text) - 1)) = SubSeq(Split(content), 1, WORD_LIMIT)
    /\ \A i \in 1..Len(text) :
          text[i] \in Whitespace =>
              /\ text[i] = " "
              /\ 1 < i /\ i < Len(text)
              /\ text[i - 1] \notin Whitespace
              /\ text[i + 1] \notin Whitespace

\* the completions of more than WORD_LIMIT words
LongCompletions == {c \in Completions : WordCount(c) > WORD_LIMIT}

\* the texts a Result request can render
Renderable == {Interpreted[c] : c \in Completions} \cup {FALLBACK}

\* for each long completion, the renderable texts that are its cut
CutsOf == [c \in LongCompletions |-> {text \in Renderable : IsCutOf(text, c)}]

\* C3: every text generate_interpretation returns (fresh, cached or
\* fallback) and every cached value has at most 250 words; when the raw
\* external result has more than 250 words, the text stored and returned is
\* its first 250 words followed by "...".
C3_WordLimit ==
    /\ []WithinWordLimit
    /\ [][\A v \in Visitors, content \in LongCompletions :
            result_return(v, content) =>
                /\ response'.interpretation \in CutsOf[content]
                /\ \E e \in cache' :
                      /\ e.key = prompt_hash(inflight[v].prompt)
                      /\ e.value = response'.interpretation]_vars

\* a cut interpretation was rendered and is cached
C3_Witness ==
    /\ ResultPage(response)
    /\ Len(response.interpretation) > 0
    /\ response.interpretation[Len(response.interpretation)] = ELLIPSIS
    /\ WordCount(response.interpretation) = WORD_LIMIT
    /\ \E e \in cache : e.value = response.interpretation

---------------------------------------------------------------------------
(* C4 *)

\* C4: a Start puts the index at 0; each Question submit at an index i
\* below N-1 raises current_question by exactly one and redirects back to
\* /question; a Question submit redirects to /review only when it stored
\* its answer at index N-1; and the N-th successive submit after a Start
\* redirects to /review.
C4_QuestionFlow ==
    /\ [](\A v \in Visitors : CurrentQuestion(v) = (IF posts[v] < N THEN posts[v] ELSE N - 1))
    /\ [][\A v \in Visitors : start(v) => CurrentQuestion(v)' = 0]_vars
    /\ [][\A v \in Visitors, form \in QuestionForms :
            question(v, "POST", form) =>
                LET i == CurrentQuestion(v)
                IN  /\ i < N - 1 =>
                          /\ CurrentQuestion(v)' = i + 1
                          /\ response' = Redirect("main.question")
                    /\ response'.target = "main.review" => i = N - 1
                    /\ (posts[v] = N - 1 /\ posts'[v] = N) =>
                          response' = Redirect("main.review")]_vars

\* the N-th submit after a Start was answered with the redirect to /review
C4_Witness ==
    /\ request.route = "/question" /\ request.method = "POST"
    /\ posts[request.visitor] = N
    /\ response = Redirect("main.review")

---------------------------------------------------------------------------
(* C5 *)

\* C5: a Question submit carrying "skip" stores the empty answer at the
\* current index whatever answer text comes with it, a submit without
\* "skip" stores the submitted answer with leading and trailing whitespace
\* removed, and both advance the flow in the same way.
C5_SkipStoresBlank ==
    [][\A v \in Visitors, form \in QuestionForms :
          question(v, "POST", form) =>
              LET i == CurrentQuestion(v)
                  stored == Responses(v)'[i + 1]
              IN  /\ "skip" \in form.keys => stored = <<>>
                  /\ "skip" \notin form.keys =>
                        IsTrimOf(stored, FormText(form, "answer"))
                  /\ CurrentQuestion(v)' = (IF i < N - 1 THEN i + 1 ELSE i)
                  /\ response' = Redirect(IF i < N - 1 THEN "main.question"
                                                       ELSE "main.review")]_vars

\* a submit carrying both "skip" and a non-blank answer text was handled
C5_Witness ==
    /\ request.route = "/question" /\ request.method = "POST"
    /\ {"skip", "answer"} \subseteq request.form.keys
    /\ WordCount(request.form.answer) > 0
    /\ response.kind = "redirect"
    /\ \E k \in 1..N : Responses(request.visitor)[k] = <<>>

---------------------------------------------------------------------------
(* C6 *)

\* the positions of the answers that are not blank or whitespace only
NonBlank(answers) ==
    {k \in 1..Len(answers) : \E i \in 1..Len(answers[k]) : answers[k][i] \notin Whitespace}

\* the length of the entries of the non-blank answers at the positions S
RECURSIVE EntriesLen(_, _)
EntriesLen(answers, S) ==
    IF S = {} THEN 0
    ELSE LET k == CHOOSE x \in S : TRUE
         IN  Len(answers[k]) + 3 + EntriesLen(answers, S \ {k})

\* where the entry of answer k starts in the prompt
EntryStart(answers, k) ==
    Len(PREAMBLE) + EntriesLen(answers, {j \in NonBlank(answers) : j < k})

\* prompt is the preamble followed by the entries "<label>: <answer>\n" of
\* the non-blank answers, in label order, and nothing else
EntriesInLabelOrder(answers, prompt) ==
    /\ Len(prompt) = EntryStart(answers, Len(answers) + 1)
    /\ SubSeq(prompt, 1, Len(PREAMBLE)) = PREAMBLE
    /\ \A k \in NonBlank(answers) :
          SubSeq(prompt, EntryStart(answers, k) + 1,
                 EntryStart(answers, k) + Len(answers[k]) + 3)
              = <<LABELS[k], ": ">> \o answers[k] \o <<"\n">>

\* the number of lines that follow the preamble
LinesAfterPreamble(prompt) ==
    Cardinality({i \in (Len(PREAMBLE) + 1)..Len(prompt) : prompt[i] = "\n"})

\* C6 as stated: for every sequence of N answers build_prompt returns the
\* preamble followed by exactly one line "<label>: <answer>" per non-blank
\* answer, in label order, and no line for a blank or whitespace-only one.
C6_OneLinePerAnswer ==
    bp_prompt # <<>> =>
        /\ EntriesInLabelOrder(bp_responses, bp_prompt)
        /\ LinesAfterPreamble(bp_prompt) = Cardinality(NonBlank(bp_responses))

\* C6 amended: build_prompt returns the preamble followed by exactly one
\* entry "<label>: <answer>\n" per non-blank answer, in label order, and
\* nothing for a blank or whitespace-only one; the entries are one line
\* each when no answer contains a line break.
C6_OneEntryPerAnswer ==
    bp_prompt # <<>> =>
        /\ EntriesInLabelOrder(bp_responses, bp_prompt)
        /\ (\A k \in 1..N : \A i \in 1..Len(bp_responses[k]) : bp_responses[k][i] # "\n")
              => LinesAfterPreamble(bp_prompt) = Cardinality(NonBlank(bp_responses))

\* build_prompt was applied to answers of every sort: blank, whitespace
\* only, plain and spanning two lines
C6_Witness ==
    /\ bp_prompt # <<>>
    /\ \A a \in PromptAnswers : \E k \in 1..N : bp_responses[k] = a

---------------------------------------------------------------------------
(* C7 *)

\* C7: in every reachable state every session holds exactly N responses and
\* a current_question in 0..N-1.
C7_SessionShape ==
    \A v \in Visitors :
        /\ Len(session[v].responses) = N
        /\ session[v].current_question \in 0..(N - 1)
        /\ Len(Responses(v)) = N
        /\ CurrentQuestion(v) \in 0..(N - 1)

\* a session at the last question, after one submit more than there are
\* questions
C7_Witness ==
    \E v \in Visitors :
        /\ session[v].keys = {"responses", "current_question"}
        /\ CurrentQuestion(v) = N - 1
        /\ posts[v] = N
        /\ request.route = "/question" /\ request.method = "POST"

---------------------------------------------------------------------------
(* C8 *)

\* C8: Start can be taken in every state, and after it the visitor's
\* responses are N empty strings, current_question is 0 and the response is
\* the redirect to /question, whatever the session held before.
C8_StartResets ==
    /\ [](\A v \in WizardVisitors : ENABLED (Free /\ start(v)))
    /\ [][\A v \in Visitors :
            start(v) =>
                /\ {"responses", "current_question"} \subseteq session'[v].keys
                /\ session'[v].responses = [k \in 1..N |-> <<>>]
                /\ session'[v].current_question = 0
                /\ response' = Redirect("main.question")]_vars

\* a session Start has just reset
C8_Witness ==
    /\ request.route = "/start"
    /\ response = Redirect("main.question")
    /\ Responses(request.visitor) = BlankResponses
    /\ CurrentQuestion(request.visitor) = 0

---------------------------------------------------------------------------
(* C9 *)

\* C9: after a Review submit every stored answer i is the trimmed value of
\* the submitted field question_i (blank for a field the form lacks),
\* whatever was stored before; current_question is unchanged and the
\* response is the redirect to /loading.
C9_ReviewOverwrites ==
    [][\A v \in Visitors, form \in ReviewForms :
          review(v, "POST", form) =>
              /\ "responses" \in session'[v].keys
              /\ \A i \in Idx :
                    IsTrimOf(session'[v].responses[i + 1],
                             IF FieldName(i) \in form.keys
                             THEN form.question[i + 1] ELSE <<>>)
              /\ CurrentQuestion(v)' = CurrentQuestion(v)
              /\ ("current_question" \in session'[v].keys)
                    = ("current_question" \in session[v].keys)
              /\ response' = Redirect("main.loading")]_vars

\* a Review submit stored a non-blank answer at one index and blanked
\* another, at a question index above 0
C9_Witness ==
    /\ request.route = "/review" /\ request.method = "POST"
    /\ response = Redirect("main.loading")
    /\ CurrentQuestion(request.visitor) > 0
    /\ \E i, j \in 1..N :
          /\ Responses(request.visitor)[i] # <<>>
          /\ Responses(request.visitor)[j] = <<>>

---------------------------------------------------------------------------
(* C10 *)

\* C10: a Review view (GET /review) and a Result request (answered from the
\* cache, by a fresh external call or with the fallback) leave the
\* responses and current_question of every session unchanged.
C10_ViewsKeepSession ==
    [][\A v \in Visitors :
          ( \/ review(v, "GET", NoForm)
            \/ result_hit(v)
            \/ result_miss(v)
            \/ \E content \in Completions : result_return(v, content)
            \/ result_raise(v) )
          => session' = session]_vars

\* a Result request of a visitor with a non-blank answer was answered
C10_Witness ==
    /\ ResultPage(response)
    /\ request.route = "/result"
    /\ NonBlank(Responses(request.visitor)) # {}

---------------------------------------------------------------------------
(* C11 *)

\* when the entry was set: SimpleCache stores the expiry, the set time plus
\* the timeout
StoredAt(e) == e.expires - CACHE_DEFAULT_TIMEOUT

\* the usable entries for the prompt of the visitor's blocked request that
\* were set while that request was in flight: the request missed the cache
\* when it began, so a usable entry set since then is a concurrent writer's
ConcurrentEntries(v) ==
    {e \in LiveEntries(inflight[v].prompt) : StoredAt(e) >= inflight[v].began}

\* the cache holds at most one entry per key
OneEntryPerKey == \A e1, e2 \in cache : e1.key = e2.key => e1 = e2

\* C11 as stated: when two Result requests with the same prompt both miss
\* the cache and run concurrently, the second writer stores and returns the
\* same text as the first, so the final entry and both returned texts agree.
C11_WritersAgree ==
    [][\A v \in Visitors, content \in Completions :
          result_return(v, content) =>
              \A e \in ConcurrentEntries(v) :
                  /\ response'.interpretation = e.value
                  /\ \A f \in cache' : f.key = e.key => f.value = e.value]_vars

\* C11 amended: every request that misses makes its own external call and,
\* on success, returns the text of that call and sets the prompt's key to
\* it, replacing whatever a concurrent writer stored there and leaving the
\* other keys alone; the key holds one entry, the last writer's, and no
\* request waits for another (no lock).
C11_LastWriterWins ==
    /\ []OneEntryPerKey
    /\ [][\A v \in Visitors, content \in Completions :
            result_return(v, content) =>
                LET key == prompt_hash(inflight[v].prompt)
                IN  /\ ResultPage(response')
                    /\ response'.prompt = inflight[v].prompt
                    /\ \E e \in cache' :
                          /\ e.key = key
                          /\ e.value = response'.interpretation
                          /\ StoredAt(e) = now
                    /\ {e \in cache' : e.key # key} = {e \in cache : e.key # key}]_vars
    /\ [](\A v \in Visitors :
            inflight[v].busy =>
                \A content \in Completions : ENABLED result_return(v, content))

\* one of two concurrent requests for a prompt has stored and rendered its
\* text while the other is still blocked in its own external call
C11_Witness ==
    /\ ResultPage(response)
    /\ \E v \in Visitors :
          /\ inflight[v].busy
          /\ inflight[v].prompt = response.prompt
          /\ \E e \in ConcurrentEntries(v) : e.value = response.interpretation

---------------------------------------------------------------------------
(* C12 *)

\* the visitors whose request is blocked in the external call
Blocked == {v \in Visitors : inflight[v].busy}

\* C12: a Result request answered from the cache invokes the external
\* service zero times; one that misses invokes it exactly once and is then
\* answered either by the return of that invocation or by its failure, with
\* no further invocation (no retry); and when the invocation returns, the
\* (possibly truncated) text rendered is stored under the prompt's key by
\* the same step that answers the request.
C12_OneInvocation ==
    /\ [](Cardinality(Blocked) <= calls)
    /\ [][\A v \in Visitors :
            /\ result_hit(v) =>
                  /\ calls' = calls
                  /\ Blocked' = Blocked
                  /\ ResultPage(response')
            /\ result_miss(v) =>
                  /\ calls' = calls + 1
                  /\ Blocked' = Blocked \cup {v}
                  /\ v \notin Blocked
            /\ result_raise(v) =>
                  /\ calls' = calls
                  /\ Blocked' = Blocked \ {v}
                  /\ ResultPage(response')
                  /\ response'.interpretation = FALLBACK
            /\ \A content \in Completions :
                  result_return(v, content) =>
                      /\ calls' = calls
                      /\ Blocked' = Blocked \ {v}
                      /\ ResultPage(response')
                      /\ \E e \in cache' :
                            /\ e.key = prompt_hash(inflight[v].prompt)
                            /\ e.value = response'.interpretation
                            /\ e.expires > now]_vars

\* after one invocation a Result request was answered with a text that the
\* cache now holds under its prompt's key, and a second Result request is
\* answered without a second invocation
C12_Witness ==
    /\ calls = 1
    /\ requests = 2
    /\ Blocked = {}
    /\ request.route = "/result"
    /\ ResultPage(response)
    /\ response.interpretation # FALLBACK
    /\ response.interpretation # <<>>
    /\ \E e \in cache :
          /\ e.key = prompt_hash(response.prompt)
          /\ e.value = response.interpretation

---------------------------------------------------------------------------
(* C13 *)

\* the entries stored for the prompt whose time-to-live, counted from their
\* most recent set, has not elapsed yet
Unexpired(prompt) ==
    {e \in cache : e.key = prompt_hash(prompt)
                   /\ now < StoredAt(e) + CACHE_DEFAULT_TIMEOUT}

\* C13: every entry lives CACHE_DEFAULT_TIMEOUT (300) seconds from its most
\* recent set; a Result request whose prompt has an entry that has not lived
\* that long is answered with the entry and without invoking the external
\* service, and one whose prompt has no such entry is a miss and invokes the
\* external service.
C13_EntryLivesForTimeout ==
    /\ [][\A e \in cache' \ cache : StoredAt(e) = now]_vars
    /\ [][\A v \in Visitors :
            (result_hit(v) \/ result_miss(v)) =>
                IF Unexpired(ResultPrompt(v)) # {}
                THEN /\ ResultPage(response')
                     /\ \E e \in Unexpired(ResultPrompt(v)) :
                           response'.interpretation = e.value
                     /\ calls' = calls
                ELSE /\ calls' = calls + 1
                     /\ inflight'[v].busy]_vars

---------------------------------------------------------------------------
(* C14 *)

\* the session of the visitor was never started: no handler has written it
NeverStarted(v) == session[v].keys = {}

\* every handler answers: with a redirect, with a page, or (a Result request
\* waiting for the external service) not yet
Answered == response.kind \in {"", "redirect", "page", "calling"}

\* every request the server can still accept is handled: the session routes
\* for every form, the Result route when the visitor has no request blocked
\* and the invocation bound of the model is not used up
Handles(v) ==
    requests < MaxRequests =>
        /\ \A form \in QuestionForms : ENABLED (Accept /\ question(v, "POST", form))
        /\ ENABLED (Accept /\ question(v, "GET", NoForm))
        /\ \A form \in ReviewForms : ENABLED (Accept /\ review(v, "POST", form))
        /\ ENABLED (Accept /\ review(v, "GET", NoForm))
        /\ (~inflight[v].busy /\ calls < MaxCalls) =>
              ENABLED (Accept /\ (result_hit(v) \/ result_miss(v)))

\* C14: every form and every session state is handled without an error: a
\* Question submit that lacks the answer field stores the empty answer at
\* the current index and advances as usual; a Review submit stores the empty
\* answer for every question_i field it lacks; and on a session that was
\* never started a Question submit stores its answer at index 0 among blank
\* answers and moves to index 1, a Question view shows the first question, a
\* Review view shows six blank answers and the bare preamble, and a Result
\* request uses the bare preamble as its prompt.
C14_MissingInputIsBlank ==
    /\ [](Answered /\ \A v \in Visitors : Handles(v))
    /\ [][\A v \in Visitors :
            LET i == CurrentQuestion(v)
            IN  /\ \A form \in QuestionForms :
                      question(v, "POST", form) =>
                          /\ "answer" \notin form.keys =>
                                /\ Responses(v)'[i + 1] = <<>>
                                /\ CurrentQuestion(v)' = (IF i < N - 1 THEN i + 1 ELSE i)
                                /\ response'.kind = "redirect"
                          /\ NeverStarted(v) =>
                                /\ CurrentQuestion(v)' = 1
                                /\ \A k \in 2..N : Responses(v)'[k] = <<>>
                                /\ "skip" \notin form.keys =>
                                      IsTrimOf(Responses(v)'[1], FormText(form, "answer"))
                                /\ "skip" \in form.keys => Responses(v)'[1] = <<>>
                                /\ response' = Redirect("main.question")
                /\ \A form \in ReviewForms :
                      review(v, "POST", form) =>
                          /\ \A j \in Idx :
                                FieldName(j) \notin form.keys => Responses(v)'[j + 1] = <<>>
                          /\ response' = Redirect("main.loading")
                /\ NeverStarted(v) =>
                      /\ question(v, "GET", NoForm) =>
                            response' = Page("question.html", <<QUESTIONS[1]>>, <<>>, <<>>)
                      /\ review(v, "GET", NoForm) =>
                            response' = Page("review.html", [k \in 1..N |-> <<>>],
                                             PREAMBLE, <<>>)
                      /\ (result_hit(v) \/ result_miss(v)) =>
                            response'.prompt = PREAMBLE]_vars

\* the first request a visitor ever sent was a Question submit with an empty
\* form: it stored a blank answer and moved to the second question
C14_Witness ==
    /\ requests = 1
    /\ request.route = "/question" /\ request.method = "POST"
    /\ request.form.keys = {}
    /\ CurrentQuestion(request.visitor) = 1
    /\ Responses(request.visitor) = [k \in 1..N |-> <<>>]
    /\ response = Redirect("main.question")

---------------------------------------------------------------------------
(* C15 *)

\* a step of a request of visitor v: any route, any method, any form, and
\* the return or failure of the external call its Result request waits for
RequestOf(v) ==
    \/ home(v)
    \/ start(v)
    \/ \E form \in QuestionForms : question(v, "POST", form)
    \/ question(v, "GET", NoForm)
    \/ \E form \in ReviewForms : review(v, "POST", form)
    \/ review(v, "GET", NoForm)
    \/ loading(v)
    \/ diary(v)
    \/ result_hit(v)
    \/ result_miss(v)
    \/ \E content \in Completions : result_return(v, content)
    \/ result_raise(v)

\* C15: a step of a request of one visitor leaves the session of every other
\* visitor (its responses, its current_question and the keys it holds) and
\* every other visitor's blocked request as they were, and leaves the diary
\* list as it was: besides the visitor's own session only the interpretation
\* cache can carry anything from one visitor's request to another's.
C15_SessionsIsolated ==
    [][\A v \in Visitors :
          RequestOf(v) =>
              /\ \A w \in Visitors \ {v} :
                    /\ session'[w] = session[w]
                    /\ Responses(w)' = Responses(w)
                    /\ CurrentQuestion(w)' = CurrentQuestion(w)
                    /\ inflight'[w] = inflight[w]
              /\ dream_diary' = dream_diary]_vars

\* one visitor's session holds a non-blank answer while another visitor,
\* whose session holds different answers, has just had a Start, a Question
\* submit or a Review submit handled
C15_Witness ==
    \E v, w \in Visitors :
        /\ v # w
        /\ request.visitor = v
        /\ request.route \in {"/start", "/question", "/review"}
        /\ session[v].keys # {}
        /\ NonBlank(Responses(w)) # {}
        /\ Responses(v) # Responses(w)

---------------------------------------------------------------------------
(* C16 *)

\* the blocked request of the visitor is answered: its external call
\* returns or raises
Completes(v) ==
    \/ \E content \in Completions : result_return(v, content)
    \/ result_raise(v)

\* The server with an external service that answers every call, by a
\* completion or by an error, and a threaded server that then runs the
\* handler on: a blocked request is not kept waiting forever.
SpecLive == Spec /\ \A v \in Visitors : WF_vars(Completes(v))

\* C16: every Result request that is blocked in its external call is
\* eventually answered; the step that answers it renders result.html with a
\* displayable text (an interpretation or the fallback) and leaves the
\* visitor free for a further request; and whatever has failed before, a
\* visitor with no blocked request can always have a Result request
\* accepted (within the request and invocation bounds of the model).
C16_ResultCompletes ==
    /\ \A v \in Visitors : inflight[v].busy ~> ~inflight[v].busy
    /\ [][\A v \in Visitors :
            Completes(v) =>
                /\ ResultPage(response')
                /\ response'.prompt = inflight[v].prompt
                /\ response'.interpretation \in Renderable
                /\ result_raise(v) => response'.interpretation = FALLBACK
                /\ ~inflight'[v].busy]_vars
    /\ [](\A v \in Visitors :
            (~inflight[v].busy /\ requests < MaxRequests /\ calls < MaxCalls) =>
                ENABLED (Accept /\ (result_hit(v) \/ result_miss(v))))

\* two external calls were made, the last one answered failed, and no
\* request is left blocked
C16_Witness ==
    /\ calls = 2
    /\ Blocked = {}
    /\ request.route = "/result"
    /\ ResultPage(response)
    /\ response.interpretation = FALLBACK

---------------------------------------------------------------------------
(* C17 *)

\* C17: the diary list is empty in every reachable state, and every Diary
\* page is rendered with zero entries.
C17_DiaryStaysEmpty ==
    /\ dream_diary = <<>>
    /\ Len(dream_diary) = 0
    /\ (response.kind = "page" /\ response.target = "diary.html") =>
          Len(response.shown) = 0

\* the Diary page was rendered after a Result request had been answered
\* with a non-empty interpretation that is in the cache
C17_Witness ==
    /\ request.route = "/diary"
    /\ response.kind = "page" /\ response.target = "diary.html"
    /\ calls > 0
    /\ \E e \in cache : e.value # <<>>

---------------------------------------------------------------------------
(* C18 *)

\* for each completion, the renderable texts that are its output: the
\* completion without its leading and trailing whitespace, or its cut to
\* the word limit
OutputsOf ==
    [c \in Completions |->
        IF c \in LongCompletions THEN CutsOf[c]
        ELSE {text \in Renderable : IsTrimOf(text, c)}]

---------------------------------------------------------------------------
(* C19 *)

\* C19: a Question submit handled at index i leaves every answer at an index
\* other than i as it was, and changes current_question only when i is
\* below N-1.
C19_SubmitTouchesOneAnswer ==
    [][\A v \in Visitors, form \in QuestionForms :
          question(v, "POST", form) =>
              LET i == CurrentQuestion(v)
              IN  /\ \A j \in Idx \ {i} : Responses(v)'[j + 1] = Responses(v)[j + 1]
                  /\ Len(Responses(v)') = Len(Responses(v))
                  /\ i >= N - 1 => CurrentQuestion(v)' = i
                  /\ CurrentQuestion(v)' # i => (i < N - 1 /\ CurrentQuestion(v)' = i + 1)]_vars

\* a Question submit was handled at an index above 1 and the session still
\* holds non-blank answers at two earlier indexes
C19_Witness ==
    /\ request.route = "/question" /\ request.method = "POST"
    /\ response.kind = "redirect"
    /\ posts[request.visitor] > 2
    /\ \E j, k \in 1..(posts[request.visitor] - 1) :
          /\ j # k
          /\ Responses(request.visitor)[j] # <<>>
          /\ Responses(request.visitor)[k] # <<>>

---------------------------------------------------------------------------
(* C20 *)

\* C20: no step other than a Start of the visitor lowers the visitor's
\* current_question, so an index that has reached N-1 stays N-1 until the
\* next Start, whatever is requested in between (Review, Loading, Result,
\* Diary, by this visitor or another); and every Question submit handled at
\* index N-1 stores its answer as the last answer, leaves the index and the
\* other answers as they were and redirects to /review.
C20_LastQuestionSticks ==
    /\ [][\A v \in Visitors :
            ~start(v) => CurrentQuestion(v)' >= CurrentQuestion(v)]_vars
    /\ [][\A v \in Visitors :
            (CurrentQuestion(v) = N - 1 /\ ~start(v)) =>
                CurrentQuestion(v)' = N - 1]_vars
    /\ [][\A v \in Visitors, form \in QuestionForms :
            (CurrentQuestion(v) = N - 1 /\ question(v, "POST", form)) =>
                /\ CurrentQuestion(v)' = N - 1
                /\ response' = Redirect("main.review")
                /\ "skip" \in form.keys => Responses(v)'[N] = <<>>
                /\ "skip" \notin form.keys =>
                      IsTrimOf(Responses(v)'[N], FormText(form, "answer"))
                /\ \A k \in 1..(N - 1) : Responses(v)'[k] = Responses(v)[k]]_vars

\* a visitor at the last question had a Result request accepted for its
\* answers and then submitted the last question once more: the new answer
\* is stored, the index is still N-1 and the response is the redirect to
\* /review
C20_Witness ==
    /\ request.route = "/question" /\ request.method = "POST"
    /\ response = Redirect("main.review")
    /\ CurrentQuestion(request.visitor) = N - 1
    /\ Responses(request.visitor)[N] # <<>>
    /\ posts[request.visitor] = N
    /\ \/ /\ inflight[request.visitor].busy
          /\ inflight[request.visitor].prompt # PREAMBLE
       \/ \E e \in cache : e.key # prompt_hash(PREAMBLE)

===========================================================================
